---- MODULE Spec2Model ----
(***************************************************************************)
(* BetterStackLogger (src/src/logger.rs): the builder that configures the  *)
(* level filter, init() that installs the logger in the log facade, and    *)
(* the Log implementation (enabled / log) that spawns one HTTP send per    *)
(* admitted record.                                                        *)
(***************************************************************************)
EXTENDS Integers, Sequences, FiniteSets, TLC

(***************************************************************************)
(* Bounds of the model.                                                    *)
(***************************************************************************)
\* longest override table a builder is driven to
MaxOverrides == 2
\* number of admitted records followed through their send tasks
MaxRecords == 3
\* width of usize in the model: the order of the keys of sort_by_key is the
\* same for every width the prefix lengths fit in
WordBits == 16

(***************************************************************************)
(* log::LevelFilter and log::Level.  Both are ordered by their             *)
(* discriminant: Off < Error < Warn < Info < Debug < Trace.                *)
(***************************************************************************)
LevelFilter == {"Off", "Error", "Warn", "Info", "Debug", "Trace"}

Level == {"Error", "Warn", "Info", "Debug", "Trace"}

\* the derived Ord of LevelFilter / Level: the discriminant
Discriminant ==
    [l \in LevelFilter |->
        CASE l = "Off"   -> 0
          [] l = "Error" -> 1
          [] l = "Warn"  -> 2
          [] l = "Info"  -> 3
          [] l = "Debug" -> 4
          [] l = "Trace" -> 5]

\* Level::to_level_filter: the filter of the same name
to_level_filter(level) == level

\* Ord::max on LevelFilter
LevelMax(a, b) == IF Discriminant[a] >= Discriminant[b] THEN a ELSE b

(***************************************************************************)
(* Strings are sequences of characters.                                    *)
(***************************************************************************)
\* str::starts_with
starts_with(target, name) ==
    /\ Len(name) <= Len(target)
    /\ SubSeq(target, 1, Len(name)) = name

\* usize::wrapping_neg: 0 - n modulo 2^WordBits
wrapping_neg(n) == ((2 ^ WordBits) - n) % (2 ^ WordBits)

\* the key closure of both sort_by_key calls
SortKey(entry) == wrapping_neg(Len(entry[1]))

\* one step of a stable sort: e goes behind every element whose key is not
\* greater than its own
RECURSIVE InsertByKey(_, _)
InsertByKey(sorted, e) ==
    IF sorted = << >> THEN << e >>
    ELSE IF SortKey(Head(sorted)) <= SortKey(e)
         THEN << Head(sorted) >> \o InsertByKey(Tail(sorted), e)
         ELSE << e >> \o sorted

\* slice::sort_by_key (stable, ascending in the key)
RECURSIVE sort_by_key(_)
sort_by_key(v) ==
    IF v = << >> THEN << >>
    ELSE InsertByKey(sort_by_key(SubSeq(v, 1, Len(v) - 1)), v[Len(v)])

(***************************************************************************)
(* State.                                                                  *)
(***************************************************************************)
VARIABLES
    self_live,      \* a BetterStackLogger value is under construction
    default_level,  \* its default_level
    module_levels,  \* its module_levels: sequence of <<prefix, LevelFilter>>
    logger,         \* the logger installed in the log crate, or NoLogger
    max_log_level,  \* the log crate's global maximum level
    init_result,    \* the result of the last init()
    call,           \* the last enabled() / log() call and what it returned
    built,          \* number of records log() has admitted so far
    tasks,          \* the spawned send task of each admitted record
    requests,       \* the POST requests issued, in order; each is its body
    attempts        \* how many POSTs carried each record

vars == << self_live, default_level, module_levels, logger, max_log_level,
           init_result, call, built, tasks, requests, attempts >>

builder_vars == << self_live, default_level, module_levels >>
global_vars == << logger, max_log_level, init_result >>
send_vars == << built, tasks, requests, attempts >>

NoLogger == [installed |-> FALSE]
NoCall == [op |-> "none"]
Records == 1 .. MaxRecords

(***************************************************************************)
(* A logger configuration: the two fields the level filter reads.          *)
(***************************************************************************)
Config(dl, ml) == [installed |-> TRUE, default_level |-> dl, module_levels |-> ml]

\* the value `self` of the builder methods and of enabled()
Self == Config(default_level, module_levels)

\* Iterator::find over module_levels: the index of the first entry whose
\* name the target starts with, 0 when there is none
FindFirst(ml, target) ==
    LET hits == {i \in 1 .. Len(ml) : starts_with(target, ml[i][1])}
    IN  IF hits = {} THEN 0
        ELSE CHOOSE i \in hits : \A j \in hits : i <= j

\* the threshold enabled() compares with: the first match's level, or
\* default_level (unwrap_or)
Threshold(cfg, target) ==
    LET i == FindFirst(cfg.module_levels, target)
    IN  IF i = 0 THEN cfg.default_level ELSE cfg.module_levels[i][2]

\* enabled() with the comparison made strict: a record at exactly the
\* threshold is refused
enabled_strict(cfg, level, target) ==
    Discriminant[to_level_filter(level)] < Discriminant[Threshold(cfg, target)]

\* Log::enabled
enabled(cfg, level, target) ==
    Discriminant[to_level_filter(level)] <= Discriminant[Threshold(cfg, target)]

\* the fold of Iterator::max over the override levels, then max with
\* default_level; default_level alone when the table is empty
RECURSIVE MaxOfLevels(_)
MaxOfLevels(ml) ==
    IF Len(ml) = 1 THEN ml[1][2]
    ELSE LevelMax(ml[1][2], MaxOfLevels(Tail(ml)))

\* BetterStackLogger::max_level
max_level(cfg) ==
    IF cfg.module_levels = << >> THEN cfg.default_level
    ELSE LevelMax(MaxOfLevels(cfg.module_levels), cfg.default_level)

\* RUST_LOG as env() reads it: unset, or one of these strings
EnvValues == {"unset", "warn", "OFF", "verbose"}

\* std::env::var(..).ok().map(LevelFilter::from_str).and_then(Result::ok):
\* from_str matches the level names ignoring ASCII case
ParseEnv(v) ==
    CASE v = "warn" -> [some |-> TRUE, level |-> "Warn"]
      [] v = "OFF"  -> [some |-> TRUE, level |-> "Off"]
      [] OTHER      -> [some |-> FALSE]

(***************************************************************************)
(* Inputs the model drives the builder and the filter with.                *)
(***************************************************************************)
Prefixes == {<< >>, <<"d">>, <<"d", "b">>}
Targets == {<<"a">>, <<"d">>, <<"d", "b", "c">>}
OverrideLevels == {"Off", "Warn", "Trace"}
DefaultLevels == {"Error", "Info"}

\* the iteration orders of a HashMap<String, LevelFilter>: sequences of
\* entries with pairwise different keys
MapOrders ==
    UNION {
        {s \in [1 .. n -> Prefixes \X OverrideLevels] :
            \A i, j \in 1 .. n : i # j => s[i][1] # s[j][1]}
        : n \in 0 .. MaxOverrides}

(***************************************************************************)
(* The builder.                                                            *)
(***************************************************************************)
\* BetterStackLogger::new
New ==
    /\ ~self_live
    /\ self_live' = TRUE
    /\ default_level' = "Trace"
    /\ module_levels' = << >>
    /\ UNCHANGED << global_vars, call, send_vars >>

\* BetterStackLogger::env
Env(v) ==
    /\ self_live
    /\ default_level' = IF ParseEnv(v).some THEN ParseEnv(v).level ELSE default_level
    /\ UNCHANGED << self_live, module_levels, global_vars, call, send_vars >>

\* BetterStackLogger::with_level
with_level(level) ==
    /\ self_live
    /\ default_level' = level
    /\ UNCHANGED << self_live, module_levels, global_vars, call, send_vars >>

\* BetterStackLogger::with_module_level: push, then sort
with_module_level(target, level) ==
    /\ self_live
    /\ Len(module_levels) < MaxOverrides
    /\ module_levels' = sort_by_key(Append(module_levels, << target, level >>))
    /\ UNCHANGED << self_live, default_level, global_vars, call, send_vars >>

\* BetterStackLogger::with_target_levels: replace by the map's entries in
\* the map's iteration order, then sort
with_target_levels(order) ==
    /\ self_live
    /\ module_levels' = sort_by_key(order)
    /\ UNCHANGED << self_live, default_level, global_vars, call, send_vars >>

\* the receiver of a Log method: the logger under construction, or the one
\* the log crate holds
Receiver(recv) == IF recv = "self" THEN Self ELSE logger

HasReceiver(recv) == IF recv = "self" THEN self_live ELSE logger.installed

\* what a call of enabled() / log() was given and what came of it
CallRecord(op, cfg, level, target, result) ==
    [op |-> op, level |-> level, target |-> target,
     threshold |-> Threshold(cfg, target), result |-> result,
     flip |-> IF call.op = "none" THEN 0 ELSE 1 - call.flip]

\* a call of Log::enabled
EnabledCall(recv, level, target) ==
    /\ HasReceiver(recv)
    /\ call' = CallRecord("enabled", Receiver(recv), level, target,
                          enabled(Receiver(recv), level, target))
    /\ UNCHANGED << builder_vars, global_vars, send_vars >>

(***************************************************************************)
(* init(): the log crate keeps one logger for the process.                 *)
(***************************************************************************)
\* BetterStackLogger::init: set_max_level(self.max_level()), then
\* set_boxed_logger(self), which fails once a logger is installed
init ==
    /\ self_live
    /\ max_log_level' = max_level(Self)
    /\ IF logger.installed
       THEN /\ init_result' = "Err"
            /\ logger' = logger
       ELSE /\ init_result' = "Ok"
            /\ logger' = Self
    /\ self_live' = FALSE
    /\ default_level' = "Trace"
    /\ module_levels' = << >>
    /\ UNCHANGED << call, send_vars >>

(***************************************************************************)
(* log(): one spawned task per admitted record; the task POSTs the record  *)
(* and drops the result.                                                   *)
(***************************************************************************)
\* records whose task is spawned and has not issued its POST yet
Pending == {r \in Records : tasks[r] = "spawned"}

\* tokio::spawn of the send task of record r
spawn(r) == tasks' = [tasks EXCEPT ![r] = "spawned"]

\* log() over a queue that holds two records: an admitted record found
\* behind two pending ones is dropped
log_bounded(level, target) ==
    /\ logger.installed
    /\ call' = CallRecord("log", logger, level, target, enabled(logger, level, target))
    /\ IF enabled(logger, level, target)
       THEN /\ built < MaxRecords
            /\ built' = built + 1
            /\ IF Cardinality(Pending) >= 2 THEN tasks' = tasks ELSE spawn(built + 1)
            /\ UNCHANGED << requests, attempts >>
       ELSE UNCHANGED send_vars
    /\ UNCHANGED << builder_vars, global_vars >>

\* Log::log on the installed logger
log(level, target) ==
    /\ logger.installed
    /\ call' = CallRecord("log", logger, level, target, enabled(logger, level, target))
    /\ IF enabled(logger, level, target)
       THEN /\ built < MaxRecords
            /\ built' = built + 1
            /\ spawn(built + 1)
            /\ UNCHANGED << requests, attempts >>
       ELSE UNCHANGED send_vars
    /\ UNCHANGED << builder_vars, global_vars >>

\* the send task issuing its request twice
TaskSend_twice(r) ==
    /\ tasks[r] = "spawned"
    /\ requests' = requests \o << << r >>, << r >> >>
    /\ attempts' = [attempts EXCEPT ![r] = @ + 2]
    /\ tasks' = [tasks EXCEPT ![r] = "awaiting"]
    /\ UNCHANGED << builder_vars, global_vars, call, built >>

\* the pending records in emission order
RECURSIVE PendingFrom(_)
PendingFrom(r) ==
    IF r > MaxRecords THEN << >>
    ELSE (IF tasks[r] = "spawned" THEN << r >> ELSE << >>) \o PendingFrom(r + 1)

\* a send that carries every pending record in one request
TaskSend_batched(r) ==
    /\ tasks[r] = "spawned"
    /\ requests' = Append(requests, PendingFrom(1))
    /\ attempts' = [q \in Records |-> IF q \in Pending THEN attempts[q] + 1 ELSE attempts[q]]
    /\ tasks' = [q \in Records |-> IF q \in Pending THEN "awaiting" ELSE tasks[q]]
    /\ UNCHANGED << builder_vars, global_vars, call, built >>

\* the spawned task reaches client.post(..).body(body).send(): one request
\* whose body is the one record
TaskSend(r) ==
    /\ tasks[r] = "spawned"
    /\ requests' = Append(requests, << r >>)
    /\ attempts' = [attempts EXCEPT ![r] = @ + 1]
    /\ tasks' = [tasks EXCEPT ![r] = "awaiting"]
    /\ UNCHANGED << builder_vars, global_vars, call, built >>

\* a task that sends again when the send failed
TaskComplete_retry(r, result) ==
    /\ tasks[r] = "awaiting"
    /\ tasks' = [tasks EXCEPT ![r] = IF result = "err" THEN "spawned" ELSE result]
    /\ UNCHANGED << builder_vars, global_vars, call, built, requests, attempts >>

\* .await returns Ok or Err; `let _ =` drops it and the task ends
TaskComplete(r, result) ==
    /\ tasks[r] = "awaiting"
    /\ tasks' = [tasks EXCEPT ![r] = result]
    /\ UNCHANGED << builder_vars, global_vars, call, built, requests, attempts >>

Init ==
    /\ self_live = TRUE
    /\ default_level = "Trace"
    /\ module_levels = << >>
    /\ logger = NoLogger
    /\ max_log_level = "Off"
    /\ init_result = "none"
    /\ call = NoCall
    /\ built = 0
    /\ tasks = [r \in Records |-> "none"]
    /\ requests = << >>
    /\ attempts = [r \in Records |-> 0]

Next ==
    \/ \E v \in EnvValues : Env(v)
    \/ \E l \in DefaultLevels : with_level(l)
    \/ \E t \in Prefixes, l \in OverrideLevels : with_module_level(t, l)
    \/ \E o \in MapOrders : with_target_levels(o)
    \/ \E l \in Level, t \in Targets : EnabledCall("self", l, t)

Spec == Init /\ [][Next]_vars

(***************************************************************************)
(* Installing loggers: builders with a small table, each consumed by       *)
(* init(), the next one made by new().                                     *)
(***************************************************************************)
InitPrefixes == {<<"d">>}
InitLevels == {"Error", "Trace"}

NextInit ==
    \/ New
    \/ \E l \in InitLevels : with_level(l)
    \/ \E t \in InitPrefixes, l \in InitLevels : with_module_level(t, l)
    \/ init

SpecInit == Init /\ [][NextInit]_vars

(***************************************************************************)
(* Logging through an installed logger.  The logger is one that new(),     *)
(* with_level(), with_module_level() and init() produce.                   *)
(***************************************************************************)
InstalledLoggers ==
    {Config(dl, ml) : dl \in {"Info", "Off"},
                      ml \in {<< >>, sort_by_key(<< << <<"d", "b">>, "Warn" >> >>)}}

LogTargets == {<<"a">>, <<"d", "b", "c">>}
LogLevels == {"Error", "Info", "Debug"}

InitSend ==
    /\ self_live = FALSE
    /\ default_level = "Trace"
    /\ module_levels = << >>
    /\ logger \in InstalledLoggers
    /\ max_log_level = max_level(logger)
    /\ init_result = "Ok"
    /\ call = NoCall
    /\ built = 0
    /\ tasks = [r \in Records |-> "none"]
    /\ requests = << >>
    /\ attempts = [r \in Records |-> 0]

NextSend ==
    \/ \E l \in LogLevels, t \in LogTargets : EnabledCall("logger", l, t)
    \/ \E l \in LogLevels, t \in LogTargets : log(l, t)
    \/ \E r \in Records : TaskSend(r)
    \/ \E r \in Records, res \in {"ok", "err"} : TaskComplete(r, res)

SpecSend == InitSend /\ [][NextSend]_vars

\* the runtime runs every spawned task
FairSpecSend == SpecSend /\ \A r \in Records : WF_vars(TaskSend(r))

(***************************************************************************)
(* Properties.                                                             *)
(***************************************************************************)
\* the entries of a table whose prefix the target starts with
Matches(ml, target) == {i \in 1 .. Len(ml) : starts_with(target, ml[i][1])}

\* C1: for every target, the threshold enabled() applies is the threshold
\* of an override whose prefix is the longest registered prefix of the
\* target, and the default threshold when no registered prefix matches.
C1_LongestPrefixWins ==
    \A t \in Targets :
        LET m == Matches(module_levels, t)
        IN  IF m = {}
            THEN Threshold(Self, t) = default_level
            ELSE \E i \in m :
                    /\ \A j \in m : Len(module_levels[j][1]) <= Len(module_levels[i][1])
                    /\ Threshold(Self, t) = module_levels[i][2]

\* C2: module_levels is sorted by descending prefix length: of two adjacent
\* entries the earlier prefix is at least as long as the later one.
C2_SortedByDescendingLength ==
    \A i \in 1 .. Len(module_levels) - 1 :
        Len(module_levels[i][1]) >= Len(module_levels[i + 1][1])

\* the severity order of the specification: Trace < Debug < Info < Warn < Error
SeverityRank ==
    [l \in Level |->
        CASE l = "Trace" -> 1
          [] l = "Debug" -> 2
          [] l = "Info"  -> 3
          [] l = "Warn"  -> 4
          [] l = "Error" -> 5]

\* severity is at least the threshold; Off is above every severity
SeverityAtLeast(level, threshold) ==
    /\ threshold # "Off"
    /\ SeverityRank[level] >= SeverityRank[threshold]

\* C3: enabled() returns true, and log() spawns a send, exactly when the
\* severity is at least the threshold resolved for the target; a log() call
\* below the threshold changes nothing, an admitted one spawns exactly the
\* task of the new record.
C3_AdmittedIffAtLeastThreshold ==
    /\ [](call.op # "none" =>
            (call.result <=> SeverityAtLeast(call.level, call.threshold)))
    /\ [][(call' # call /\ call'.op = "log") =>
            IF call'.result
            THEN /\ built' = built + 1
                 /\ tasks' = [tasks EXCEPT ![built + 1] = "spawned"]
                 /\ UNCHANGED << requests, attempts, builder_vars, global_vars >>
            ELSE UNCHANGED << send_vars, builder_vars, global_vars >>]_vars

\* a record at exactly the threshold was admitted by log() and its task spawned
C3_Witness ==
    /\ call.op = "log"
    /\ call.result
    /\ call.level = call.threshold
    /\ built > 0
    /\ tasks[built] = "spawned"

Occurrences(r) ==
    Cardinality({i \in 1 .. Len(requests) :
                    \E k \in 1 .. Len(requests[i]) : requests[i][k] = r})

Handed(r) == tasks[r] \in {"awaiting", "ok", "err"}

\* C5: every admitted record is eventually handed to the transport, in
\* exactly one request: none is lost and none is sent twice.
C5_DeliveredExactlyOnce ==
    /\ [](\A r \in Records :
            /\ Occurrences(r) = (IF Handed(r) THEN 1 ELSE 0)
            /\ Occurrences(r) = attempts[r])
    /\ [](\A i \in 1 .. Len(requests) : \A k \in 1 .. Len(requests[i]) :
            requests[i][k] \in 1 .. built)
    /\ \A r \in Records : (tasks[r] = "spawned") ~> (Occurrences(r) = 1)

\* all the records were admitted and each was sent once, without failure
C5_Witness ==
    /\ built = MaxRecords
    /\ \A r \in Records : tasks[r] = "ok" /\ Occurrences(r) = 1

C8_FailureSwallowed ==
    /\ [](\A r \in Records : attempts[r] <= 1)
    /\ [][\A r \in Records :
            tasks[r] = "err" => (tasks'[r] = "err" /\ attempts'[r] = attempts[r])]_vars
    /\ []((built < MaxRecords /\ \E q \in Records : tasks[q] = "err") =>
            \A l \in LogLevels, t \in LogTargets : ENABLED log(l, t))
    /\ \A r \in Records :
          (tasks[r] = "spawned" /\ \E q \in Records : tasks[q] = "err")
              ~> (attempts[r] = 1 /\ Handed(r))

\* record 1 failed after its one attempt and record 2 was sent after it
C8_Witness ==
    /\ tasks[1] = "err"
    /\ attempts[1] = 1
    /\ tasks[2] = "ok"
    /\ requests = << << 1 >>, << 2 >> >>

\* C9: once a logger is installed, every further init() returns an error
\* and leaves the installed logger and the global maximum level as they were.
C9_SecondInitChangesNothing ==
    [][(logger.installed /\ self_live /\ ~self_live') =>
          /\ init_result' = "Err"
          /\ logger' = logger
          /\ max_log_level' = max_log_level]_vars

\* the most verbose of the default threshold and the override thresholds
MostVerbose(cfg) ==
    LET all == {cfg.default_level} \cup
               {cfg.module_levels[i][2] : i \in 1 .. Len(cfg.module_levels)}
    IN  CHOOSE m \in all : \A l \in all : Discriminant[l] <= Discriminant[m]

\* C10: max_level() is the most verbose of the default and the override
\* thresholds, and the global maximum level never suppresses a record the
\* installed logger admits.
C10_GlobalFilterAdmits ==
    /\ self_live => max_level(Self) = MostVerbose(Self)
    /\ logger.installed =>
          \A l \in Level, t \in Targets :
              enabled(logger, l, t) =>
                  Discriminant[to_level_filter(l)] <= Discriminant[max_log_level]

====
